---- MODULE Spec2Model ----
(***************************************************************************)
(* Model of weatherapp.py: a Streamlit script that, on a button press,     *)
(* validates two credentials, fetches the current weather through a        *)
(* 300-second memoising cache, renders it, and asks a hosted model for a   *)
(* list of attractions.                                                    *)
(*                                                                         *)
(* One press is one run of the script's "if go:" block.  The run is cut    *)
(* into the steps Validate, Fetch, CheckData, Render, Attractions, Tail;   *)
(* pc is the position of the run.  A run ends in "stopped" (st.stop()),    *)
(* "done" (st.success) or "fault" (an exception left the script).          *)
(***************************************************************************)
EXTENDS Integers, Sequences, FiniteSets, TLC

\* ---------------------------------------------------------------- bounds
MaxPresses == 2
MaxTime == 400
TickStep == 200

\* ------------------------------------------------------ program constants
TTL == 300

\* ------------------------------------------------------------ input sets
\* Credentials are character sequences so that str.strip() is computed.
Cities == {"", "Paris", "paris"}
GoogleKeys == {<<>>, <<" ">>, <<"g">>}
WeatherKeys == {<<>>, <<" ">>, <<"k">>, <<"k", " ">>}

NoError == "absent"

\* ------------------------------------------------------------- str.strip
Whitespace == {" "}

RECURSIVE lstrip(_)
lstrip(s) ==
    IF s = <<>> THEN <<>>
    ELSE IF Head(s) \in Whitespace THEN lstrip(Tail(s)) ELSE s

RECURSIVE rstrip(_)
rstrip(s) ==
    IF s = <<>> THEN <<>>
    ELSE IF s[Len(s)] \in Whitespace THEN rstrip(SubSeq(s, 1, Len(s) - 1)) ELSE s

strip(s) == rstrip(lstrip(s))

\* Python truthiness of a str: "not s" holds exactly for the empty string.
Blank(s) == strip(s) = <<>>

\* ------------------------------------------------------- weather results
\* A value returned by fetch_weather: Python None, or a dict described by
\* which of the top-level keys "current", "location", "error" it carries
\* (error = NoError: the key is absent; otherwise its truthy value).
NoneResult ==
    [isNone |-> TRUE, current |-> FALSE, location |-> FALSE, error |-> NoError]

DictResult(cur, loc, err) ==
    [isNone |-> FALSE, current |-> cur, location |-> loc, error |-> err]

\* What the provider does with one request: requests.get raises (transport),
\* raise_for_status raises (non-2xx), r.json() raises (body is not JSON), or
\* a 2xx JSON object arrives.
Payloads == [current : BOOLEAN, location : BOOLEAN, error : {NoError, "provider error"}]
EmptyPayload == [current |-> FALSE, location |-> FALSE, error |-> NoError]

ProviderOutcomes ==
    [kind : {"transport"}, msg : {"timed out"}, payload : {EmptyPayload}]
    \cup [kind : {"status"}, msg : {"400 Client Error"}, payload : {EmptyPayload}]
    \cup [kind : {"decode"}, msg : {"Expecting value"}, payload : {EmptyPayload}]
    \cup [kind : {"ok"}, msg : {NoError}, payload : Payloads]

NoReply == [kind |-> "none", msg |-> NoError, payload |-> EmptyPayload]

\* Variant: the payload test written with "or" instead of "and".
fetch_weather_body_or(outcome) ==
    IF outcome.kind # "ok"
    THEN DictResult(FALSE, FALSE, outcome.msg)
    ELSE IF outcome.payload.current \/ outcome.payload.location
         THEN DictResult(outcome.payload.current, outcome.payload.location,
                         outcome.payload.error)
         ELSE NoneResult

\* The body of fetch_weather (one provider request).
fetch_weather_body(outcome) ==
    IF outcome.kind # "ok"
    THEN DictResult(FALSE, FALSE, outcome.msg)
    ELSE IF outcome.payload.current /\ outcome.payload.location
         THEN DictResult(TRUE, TRUE, outcome.payload.error)
         ELSE NoneResult

\* ------------------------------------------------------------------ cache
\* st.cache_data(ttl=300): entries keyed by the literal arguments.
\* Variant: the city is lower-cased before it is used as a key.
make_key_lower(c, k) == <<IF c = "Paris" THEN "paris" ELSE c, k>>

make_key(c, k) == <<c, k>>

CacheKeys == Cities \X WeatherKeys

NoEntry == [present |-> FALSE, value |-> NoneResult, storedAt |-> 0]

IsLive(entry, t) == entry.present /\ t - entry.storedAt < TTL

\* Variant: only successful results are stored.
ShouldStore_success(result) == ~result.isNone /\ result.error = NoError

\* st.cache_data stores whatever the function returned.
ShouldStore(result) == TRUE

\* ----------------------------------------------------- build_weather_summary
\* Indexes data["location"] and data["current"]; a dict lacking either key
\* (or None) raises instead of returning the sentence.
build_weather_summary(d) ==
    IF ~d.isNone /\ d.current /\ d.location
    THEN [raised |-> FALSE, value |-> <<"Location: ... Condition: ... Humidity: ...%.">>]
    ELSE [raised |-> TRUE, value |-> <<>>]

\* -------------------------------------------------------- get_attractions_md
NotInstalledMsg ==
    <<"Gemini package not installed. Run: pip install langchain-google-genai">>

\* What the model access does: constructing ChatGoogleGenerativeAI succeeds
\* or raises; llm.invoke returns text, returns empty content, or raises.
ConstructOutcomes == {"ok", "raise"}
InvokeRaises == {"429 quota exceeded"}
InvokeOutcomes == {"text", "empty"} \cup InvokeRaises

\* Variant: the availability flag is not consulted.
get_attractions_md_noflag(c, weather_summary, gk, available, construct, invoke) ==
    IF construct = "raise"
    THEN [raised |-> TRUE, value |-> <<>>, built |-> 0, calls |-> 0]
    ELSE IF invoke \in InvokeRaises
    THEN [raised |-> FALSE, value |-> <<"Gemini call failed: ", invoke>>,
          built |-> 1, calls |-> 1]
    ELSE IF invoke = "empty"
    THEN [raised |-> FALSE, value |-> <<"No response.">>, built |-> 1, calls |-> 1]
    ELSE [raised |-> FALSE, value |-> <<"- **Name**: ...">>, built |-> 1, calls |-> 1]

\* Variant: llm.invoke is not wrapped in try/except.
get_attractions_md_noexcept(c, weather_summary, gk, available, construct, invoke) ==
    IF ~available
    THEN [raised |-> FALSE, value |-> NotInstalledMsg, built |-> 0, calls |-> 0]
    ELSE IF construct = "raise"
    THEN [raised |-> TRUE, value |-> <<>>, built |-> 0, calls |-> 0]
    ELSE IF invoke \in InvokeRaises
    THEN [raised |-> TRUE, value |-> <<>>, built |-> 1, calls |-> 1]
    ELSE IF invoke = "empty"
    THEN [raised |-> FALSE, value |-> <<"No response.">>, built |-> 1, calls |-> 1]
    ELSE [raised |-> FALSE, value |-> <<"- **Name**: ...">>, built |-> 1, calls |-> 1]

\* Variant: a failed llm.invoke is attempted a second time.
get_attractions_md_retry(c, weather_summary, gk, available, construct, invoke) ==
    IF ~available
    THEN [raised |-> FALSE, value |-> NotInstalledMsg, built |-> 0, calls |-> 0]
    ELSE IF construct = "raise"
    THEN [raised |-> TRUE, value |-> <<>>, built |-> 0, calls |-> 0]
    ELSE IF invoke \in InvokeRaises
    THEN [raised |-> FALSE, value |-> <<"Gemini call failed: ", invoke>>,
          built |-> 1, calls |-> 2]
    ELSE IF invoke = "empty"
    THEN [raised |-> FALSE, value |-> <<"No response.">>, built |-> 1, calls |-> 1]
    ELSE [raised |-> FALSE, value |-> <<"- **Name**: ...">>, built |-> 1, calls |-> 1]

\* Result of one call: whether an exception left the function, the returned
\* string, and how many clients were constructed and model calls issued.
get_attractions_md(c, weather_summary, gk, available, construct, invoke) ==
    IF ~available
    THEN [raised |-> FALSE, value |-> NotInstalledMsg, built |-> 0, calls |-> 0]
    ELSE IF construct = "raise"
    THEN [raised |-> TRUE, value |-> <<>>, built |-> 0, calls |-> 0]
    ELSE IF invoke \in InvokeRaises
    THEN [raised |-> FALSE, value |-> <<"Gemini call failed: ", invoke>>,
          built |-> 1, calls |-> 1]
    ELSE IF invoke = "empty"
    THEN [raised |-> FALSE, value |-> <<"No response.">>, built |-> 1, calls |-> 1]
    ELSE [raised |-> FALSE, value |-> <<"- **Name**: ...">>, built |-> 1, calls |-> 1]

\* ------------------------------------------------------------------ state
VARIABLES
    langchain_importable, \* whether "from langchain_google_genai import ..." succeeds
    LLM_AVAILABLE,        \* the module-level flag
    now,                  \* wall-clock seconds
    cache,                \* st.cache_data store of fetch_weather
    presses,              \* button presses so far
    pc,                   \* position of the current script run
    city, google_key, weather_key,   \* widget values of the run
    data,                 \* value returned by fetch_weather in this run
    md,                   \* value returned by get_attractions_md in this run
    shown,                \* elements rendered by this run, in order
    requests,             \* provider requests issued in this run
    reply,                \* what the provider did with this run's request
    summaries,            \* build_weather_summary invocations in this run
    advised,              \* get_attractions_md invocations in this run
    built,                \* model clients constructed in this run
    invoked,              \* llm.invoke calls issued in this run
    answer,               \* what the model did with this run's call
    exc                   \* exception that ended the run, if any

vars == <<langchain_importable, LLM_AVAILABLE, now, cache, presses, pc, city,
          google_key, weather_key, data, md, shown, requests, reply,
          summaries, advised, built, invoked, answer, exc>>

env == <<langchain_importable, LLM_AVAILABLE>>
inputs == <<city, google_key, weather_key>>
counters == <<requests, reply, summaries, advised, built, invoked, answer>>

Resting == {"idle", "stopped", "done", "fault"}
Ended == {"stopped", "done", "fault"}

Element(kind, text) == [kind |-> kind, text |-> text]

InfoElement == Element("info", <<"Enter a city, add your API keys, then click Generate Travel Guide.">>)
GoogleKeyError == Element("error", <<"Please enter your Google Gemini API key.">>)
WeatherKeyError == Element("error", <<"Please enter your WeatherAPI key.">>)
WeatherError(detail) == Element("error", <<"Could not fetch weather. ", detail>>)
CardElement == Element("card", <<>>)
MetricsElement == Element("metrics", <<>>)
WeatherTabElement == Element("tab_weather", <<>>)
AttractionsElement(text) == Element("tab_attractions", text)
MapElement == Element("tab_map", <<>>)
JsonElement == Element("tab_json", <<>>)
SuccessElement == Element("success", <<"Done! Try another city.">>)

\* The first run of the script, with the button not pressed.
Init ==
    /\ langchain_importable \in BOOLEAN
    /\ LLM_AVAILABLE = langchain_importable
    /\ now = 0
    /\ cache = [k \in CacheKeys |-> NoEntry]
    /\ presses = 0
    /\ pc = "idle"
    /\ city = "Paris"
    /\ google_key = <<>>
    /\ weather_key = <<>>
    /\ data = NoneResult
    /\ md = <<>>
    /\ shown = <<InfoElement>>
    /\ requests = 0
    /\ reply = NoReply
    /\ summaries = 0
    /\ advised = 0
    /\ built = 0
    /\ invoked = 0
    /\ answer = "none"
    /\ exc = "none"

\* Time passes between runs of the script; within a run only the cache
\* lookup reads the clock.
Tick ==
    /\ pc \in Resting
    /\ now + TickStep <= MaxTime
    /\ now' = now + TickStep
    /\ UNCHANGED <<env, cache, presses, pc, inputs, data, md, shown, counters, exc>>

\* The button is pressed with the widgets holding c, gk, wk: the script
\* reruns from the top (the import check again) and enters "if go:".
Press(c, gk, wk) ==
    /\ pc \in Resting
    /\ presses < MaxPresses
    /\ presses' = presses + 1
    /\ LLM_AVAILABLE' = langchain_importable
    /\ city' = c
    /\ google_key' = gk
    /\ weather_key' = wk
    /\ data' = NoneResult
    /\ md' = <<>>
    /\ shown' = <<>>
    /\ requests' = 0
    /\ reply' = NoReply
    /\ summaries' = 0
    /\ advised' = 0
    /\ built' = 0
    /\ invoked' = 0
    /\ answer' = "none"
    /\ exc' = "none"
    /\ pc' = "validate"
    /\ UNCHANGED <<langchain_importable, now, cache>>

\* The two credential checks.
Validate ==
    /\ pc = "validate"
    /\ IF Blank(google_key)
       THEN /\ shown' = Append(shown, GoogleKeyError)
            /\ pc' = "stopped"
       ELSE IF Blank(weather_key)
       THEN /\ shown' = Append(shown, WeatherKeyError)
            /\ pc' = "stopped"
       ELSE /\ shown' = shown
            /\ pc' = "fetch"
    /\ UNCHANGED <<env, now, cache, presses, inputs, data, md, counters, exc>>

\* data = fetch_weather(city, weather_key), through the cache.
Fetch(outcome) ==
    /\ pc = "fetch"
    /\ LET k == make_key(city, weather_key)
           fresh == fetch_weather_body(outcome)
       IN IF IsLive(cache[k], now)
          THEN /\ data' = cache[k].value
               /\ requests' = requests
               /\ reply' = reply
               /\ cache' = cache
          ELSE /\ data' = fresh
               /\ requests' = requests + 1
               /\ reply' = outcome
               /\ cache' = IF ShouldStore(fresh)
                           THEN [cache EXCEPT ![k] =
                                   [present |-> TRUE, value |-> fresh, storedAt |-> now]]
                           ELSE [cache EXCEPT ![k] = NoEntry]
    /\ pc' = "check"
    /\ UNCHANGED <<env, now, presses, inputs, md, shown, summaries, advised,
                   built, invoked, answer, exc>>

\* Variant: only "not data" is tested.
DataRejected_falsy(d) == d.isNone

\* "not data or data.get('error')"
DataRejected(d) == d.isNone \/ d.error # NoError

\* The weather error check; the message is built with data.get(...), which
\* raises AttributeError when data is None.
CheckData ==
    /\ pc = "check"
    /\ IF DataRejected(data)
       THEN IF data.isNone
            THEN /\ exc' = "AttributeError"
                 /\ shown' = shown
                 /\ pc' = "fault"
            ELSE /\ exc' = exc
                 /\ shown' = Append(shown, WeatherError(data.error))
                 /\ pc' = "stopped"
       ELSE /\ exc' = exc
            /\ shown' = shown
            /\ pc' = "render"
    /\ UNCHANGED <<env, now, cache, presses, inputs, data, md, counters>>

\* cur = data["current"]; loc = data["location"]; card, metrics, tabs and
\* the weather-details tab.
Render ==
    /\ pc = "render"
    /\ IF data.isNone \/ ~data.current \/ ~data.location
       THEN /\ exc' = IF data.isNone THEN "TypeError" ELSE "KeyError"
            /\ shown' = shown
            /\ pc' = "fault"
       ELSE /\ exc' = exc
            /\ shown' = shown \o <<CardElement, MetricsElement, WeatherTabElement>>
            /\ pc' = "attractions"
    /\ UNCHANGED <<env, now, cache, presses, inputs, data, md, counters>>

\* The attractions tab: build_weather_summary, get_attractions_md, st.markdown.
Attractions(construct, invoke) ==
    /\ pc = "attractions"
    /\ LET s == build_weather_summary(data)
           r == get_attractions_md(city, s.value, google_key, LLM_AVAILABLE,
                                   construct, invoke)
       IN /\ summaries' = summaries + 1
          /\ IF s.raised
             THEN /\ exc' = "KeyError"
                  /\ pc' = "fault"
                  /\ UNCHANGED <<md, shown, advised, built, invoked, answer>>
             ELSE /\ advised' = advised + 1
                  /\ built' = built + r.built
                  /\ invoked' = invoked + r.calls
                  /\ answer' = IF r.calls > 0 THEN invoke ELSE answer
                  /\ IF r.raised
                     THEN /\ exc' = "ClientError"
                          /\ pc' = "fault"
                          /\ UNCHANGED <<md, shown>>
                     ELSE /\ exc' = exc
                          /\ md' = r.value
                          /\ shown' = Append(shown, AttractionsElement(r.value))
                          /\ pc' = "tail"
    /\ UNCHANGED <<env, now, cache, presses, inputs, data, requests, reply>>

\* The map tab, the raw JSON tab and the closing success message.
Finish ==
    /\ pc = "tail"
    /\ shown' = shown \o <<MapElement, JsonElement, SuccessElement>>
    /\ pc' = "done"
    /\ UNCHANGED <<env, now, cache, presses, inputs, data, md, counters, exc>>

Next ==
    \/ Tick
    \/ \E c \in Cities, gk \in GoogleKeys, wk \in WeatherKeys : Press(c, gk, wk)
    \/ Validate
    \/ \E outcome \in ProviderOutcomes : Fetch(outcome)
    \/ CheckData
    \/ Render
    \/ \E construct \in ConstructOutcomes, invoke \in InvokeOutcomes :
          Attractions(construct, invoke)
    \/ Finish

Spec == Init /\ [][Next]_vars

TypeOK ==
    /\ pc \in {"idle", "validate", "fetch", "check", "render", "attractions",
               "tail", "stopped", "done", "fault"}
    /\ now \in 0..MaxTime

\* ===================================================================
\* Properties
\* ===================================================================

\* Both credentials of the current run pass the validation.
CredentialsGiven == ~Blank(google_key) /\ ~Blank(weather_key)

\* fetch_weather has returned in the current run.
Fetched ==
    \/ pc \in {"check", "render", "attractions", "tail"}
    \/ pc \in Ended /\ CredentialsGiven

\* The result is a failure for the caller: None or a dict whose error is set.
FailureResult(d) == d.isNone \/ d.error # NoError

ErrorOnly(d) == ~d.isNone /\ ~d.current /\ ~d.location /\ d.error # NoError
SuccessOnly(d) == ~d.isNone /\ d.current /\ d.location /\ d.error = NoError

\* The age of the cache entry of the current run's literal arguments.
EntryOfRun == cache[<<city, weather_key>>]
AgeOfEntry == now - EntryOfRun.storedAt

\* C1: every press with both credentials non-blank ends either in the
\* weather-error message followed by a halt or in the final Done state,
\* never in an exception leaving the script.
C1_NoUnhandledFault ==
    (pc \in Ended /\ CredentialsGiven) =>
        \/ pc = "done" /\ shown[Len(shown)] = SuccessElement
        \/ /\ pc = "stopped"
           /\ \E detail \in {"timed out", "400 Client Error", "Expecting value",
                             "provider error", "Check city or API key."} :
                 shown = <<WeatherError(detail)>>

C3_CacheWithinTTL ==
    [][(pc = "fetch" /\ pc' = "check") =>
         /\ (EntryOfRun.present /\ AgeOfEntry < TTL) =>
               /\ requests' = requests
               /\ data' = EntryOfRun.value
               /\ cache' = cache
         /\ (~EntryOfRun.present \/ AgeOfEntry > TTL) =>
               /\ requests' = requests + 1
               /\ cache'[<<city, weather_key>>].present
               /\ cache'[<<city, weather_key>>].storedAt = now
               /\ cache'[<<city, weather_key>>].value = data'
         /\ \A k \in CacheKeys \ {<<city, weather_key>>} : cache'[k] = cache[k]
      ]_vars

\* A later successful lookup was served from the entry an earlier one stored.
C3_Witness ==
    /\ pc = "check"
    /\ requests = 0
    /\ EntryOfRun.present
    /\ EntryOfRun.storedAt < now
    /\ SuccessOnly(data)
    /\ data = EntryOfRun.value

\* C4: with a blank Gemini key or WeatherAPI key the press issues no weather
\* request and no model call; when the weather fetch returned a failure the
\* weather-error message is shown and the advisory step is not invoked.
C4_HaltsEarly ==
    /\ (pc \in Ended /\ ~CredentialsGiven) =>
          (requests = 0 /\ advised = 0 /\ built = 0 /\ invoked = 0)
    /\ (pc \in Ended /\ CredentialsGiven /\ FailureResult(data)) =>
          /\ advised = 0
          /\ invoked = 0
          /\ \E i \in 1..Len(shown) :
                /\ shown[i].kind = "error"
                /\ shown[i].text[1] = "Could not fetch weather. "

\* C5: get_attractions_md never raises: once it was entered, the run holds
\* the string it returned and has not ended in an exception.
C5_AdvisorNeverRaises ==
    advised > 0 => (pc # "fault" /\ exc = "none" /\ md # <<>>)

C7_SummaryOnlyOnSuccess ==
    /\ summaries > 0 => SuccessOnly(data)
    /\ (Fetched /\ ~data.isNone /\ data.error # NoError) =>
          (summaries = 0 /\ pc \in {"check", "stopped"})

\* A cached error result stopped the run before the summary.
C7_Witness ==
    /\ pc = "stopped"
    /\ CredentialsGiven
    /\ requests = 0
    /\ data.error # NoError
    /\ summaries = 0

\* C8: a failed lookup is stored like a success: every further lookup of the
\* same pair less than TTL seconds later returns that same result without a
\* provider request, whatever the provider would answer now; a lookup more
\* than TTL seconds later issues a new request.
C8_FailuresCached ==
    [][(pc = "fetch" /\ pc' = "check") =>
         /\ (requests' = requests + 1 /\ FailureResult(data')) =>
               cache'[<<city, weather_key>>] =
                  [present |-> TRUE, value |-> data', storedAt |-> now]
         /\ (EntryOfRun.present /\ FailureResult(EntryOfRun.value) /\ AgeOfEntry < TTL) =>
               /\ data' = EntryOfRun.value
               /\ requests' = requests
               /\ reply' = NoReply
               /\ cache' = cache
         /\ (EntryOfRun.present /\ FailureResult(EntryOfRun.value) /\ AgeOfEntry > TTL) =>
               requests' = requests + 1
      ]_vars

\* A later lookup got the stored error without a provider request.
C8_Witness ==
    /\ pc = "check"
    /\ requests = 0
    /\ ErrorOnly(data)
    /\ EntryOfRun.value = data
    /\ EntryOfRun.storedAt < now

C10_ExactlyOneCall ==
    (LLM_AVAILABLE /\ advised > 0) => invoked = 1

\* C10 (amended): with the flag true every press that reaches the advisory
\* step enters it once and issues exactly one model call when the client was
\* constructed and none when constructing the client raised; never two.
C10_OneCallPerBuiltClient ==
    (LLM_AVAILABLE /\ advised > 0) =>
        /\ advised = 1
        /\ \/ built = 1 /\ invoked = 1 /\ answer # "none" /\ pc \in {"tail", "done"}
           \/ built = 0 /\ invoked = 0 /\ exc = "ClientError" /\ pc = "fault"

\* A press served from the cache still issued its one model call.
C10_Witness ==
    /\ pc = "done"
    /\ LLM_AVAILABLE
    /\ requests = 0
    /\ advised = 1
    /\ invoked = 1

====
